---------------------------- MODULE Spec2Model ----------------------------
(***************************************************************************)
(* RAZIEL NDVI console: the capture thread (CaptureThread.cpp) and the     *)
(* render context (NDVIApp.cpp) as a state machine.                        *)
(*                                                                         *)
(* Time is counted in ticks of 1/TicksPerSec second.  cv::getTickCount()   *)
(* reads a monotonic clock whose origin is the boot of the machine; the    *)
(* handler keeps it as a double (exact at this resolution) and stores it   *)
(* into the float member m_lastProcessTime, which rounds it to 24          *)
(* significant bits.                                                       *)
(***************************************************************************)
EXTENDS Integers, Sequences, FiniteSets, TLC

(***************************************************************************)
(* Bounds of the model.                                                    *)
(***************************************************************************)
MaxThreads == 2      \* CaptureThread objects created by startCamera
MaxFrames == 3       \* frames the camera delivers in one run of the model
MaxTicks == 2        \* deliveries before which the clock advances
MaxBurst == 100      \* frames of the fixed-rate throttle scenario
MaxKernelFrames == 3 \* frames of the kernel scenarios
MaxSmallSample == 100 \* sample sizes 1..MaxSmallSample of the index scenarios
BigRows == 6         \* rows of the large NDVI matrix
BigCols == 10        \* columns of the large NDVI matrix

(***************************************************************************)
(* Units and clock readings.                                               *)
(***************************************************************************)
TicksPerSec == 16 * 1000

Millisecond == TicksPerSec \div 1000

RECURSIVE Log2(_)
Log2(n) == IF n < 2 THEN 0 ELSE 1 + Log2(n \div 2)

\* Spacing of the floats around t ticks: a float has 24 significant bits, so
\* in the binade [2^k s, 2^(k+1) s) neighbouring floats are 2^(k-23) s apart.
Ulp(t) == (TicksPerSec * 2^Log2(t \div TicksPerSec)) \div 2^23

\* double -> float: round to nearest, ties to the even significand.
ToFloat(t) ==
    IF t = 0 THEN 0
    ELSE LET u == Ulp(t)
             q == t \div u
             r == t % u
         IN  IF 2 * r < u THEN q * u
             ELSE IF 2 * r > u THEN (q + 1) * u
             ELSE IF q % 2 = 0 THEN q * u ELSE (q + 1) * u

\* Clock readings at which the application is constructed: 2^16 s and 2^17 s
\* after boot (18 h and 36 h), where Ulp is a whole number of ticks.
BootTimes ==
    { 65536 * TicksPerSec + 60,
      131072 * TicksPerSec + 250 }

\* Time that passes between two frame deliveries: none that the clock
\* resolves, or 1550 ticks (96.875 ms).
Delays == { 0, 1550 }

\* m_processInterval(0.1f): the float nearest to 0.1 is 13421773 * 2^-27 s.
ProcessIntervalMant == 13421773

\* The least whole number of ticks d with d / TicksPerSec >= 0.1f.
MinProcessGap ==
    (ProcessIntervalMant * (TicksPerSec \div 128) + (2^20 - 1)) \div 2^20

\* 0.1 s in ticks, the interval the throttle is meant to keep.
NominalInterval == TicksPerSec \div 10

(***************************************************************************)
(* Frames.  A pixel is <<B, G, R>>, an image a sequence of rows; the empty *)
(* cv::Mat() is the image with no rows.                                    *)
(***************************************************************************)
EmptyImage == << >>

ImgA == << << <<64, 0, 192>>, <<0, 0, 192>> >>,
           << <<64, 0, 64>>,  <<192, 0, 64>> >> >>

ImgB == << << <<192, 0, 0>>,  <<64, 0, 64>> >>,
           << <<64, 0, 64>>,  <<64, 0, 192>> >> >>

\* A scene of low contrast: NDVI values 3/64, -3/64, 1/8 and 0.
ImgC == << << <<61, 0, 67>>, <<67, 0, 61>> >>,
           << <<28, 0, 36>>, <<0, 0, 0>> >> >>

FrameImages == { ImgA, ImgB }

\* The scene in front of the camera: the image of the k-th frame read.
CameraImage(k) == IF k % 2 = 1 THEN ImgA ELSE ImgB

\* The scene of the kernel scenarios, which ends on the low contrast.
SceneImage(k) == IF k = 1 THEN ImgA ELSE IF k = 2 THEN ImgB ELSE ImgC

EmptyFrame == [seq |-> 0, img |-> EmptyImage]

IsEmpty(img) == Len(img) = 0

Rows(img) == Len(img)

Cols(img) == IF Len(img) = 0 THEN 0 ELSE Len(img[1])


(***************************************************************************)
(* NDVI kernel, computeNDVI lines 425-438.  An NDVI value is kept as the   *)
(* exact fraction <<R - B, R + B>>; R + B + EPSILON is R + B in float for  *)
(* R + B >= 1 and EPSILON for R + B = 0, where the quotient is 0.          *)
(***************************************************************************)
NDVIPixel(px) ==
    IF px[3] + px[1] = 0 THEN <<0, 1>> ELSE <<px[3] - px[1], px[3] + px[1]>>

NDVIMatrix(img) ==
    [y \in 1..Rows(img) |-> [x \in 1..Cols(img) |-> NDVIPixel(img[y][x])]]

Zero == <<0, 1>>

\* A NaN is kept as the fraction 0/0.  No frame of 8-bit pixels gives one:
\* R + B + EPSILON is positive.
NaN == <<0, 0>>

IsNaN(v) == v[2] = 0

Abs(n) == IF n < 0 THEN -n ELSE n

RECURSIVE GCD(_, _)
GCD(a, b) == IF b = 0 THEN a ELSE GCD(b, a % b)

Reduced(v) ==
    IF IsNaN(v) THEN NaN
    ELSE LET g == GCD(Abs(v[1]), v[2]) IN <<v[1] \div g, v[2] \div g>>

\* IEEE addition: a NaN operand gives NaN.
FracAdd(a, b) ==
    IF IsNaN(a) \/ IsNaN(b) THEN NaN
    ELSE Reduced(<<a[1] * b[2] + b[1] * a[2], a[2] * b[2]>>)

Pixels(m) == { <<y, x>> : y \in 1..Rows(m), x \in 1..Cols(m) }

(***************************************************************************)
(* Zoom stage, onFrameReady lines 637-652.                                 *)
(***************************************************************************)
\* cv::resize(src, src, Size(w0, h0), 0, 0, INTER_LINEAR) of a source that
\* has the target size already, or of a single pixel, which every
\* interpolated pixel then equals: the crops of the 2x2 frames of the model.
\* The crop left at its own size
Resized_Kept(src, w0, h0) == src

Resized(src, w0, h0) ==
    IF Rows(src) = h0 /\ Cols(src) = w0 THEN src
    ELSE [y \in 1..h0 |-> [x \in 1..w0 |-> src[1][1]]]

Zoomed(img, z) ==
    LET h0 == Rows(img)
        w0 == Cols(img)
        cx == w0 \div 2
        cy == h0 \div 2
        ws == w0 \div z
        hs == h0 \div z
        x0 == cx - ws \div 2
        y0 == cy - hs \div 2
    IN  IF z > 1 /\ ws > 0 /\ hs > 0
        THEN Resized([y \in 1..hs |-> [x \in 1..ws |-> img[y0 + y][x0 + x]]],
                     w0, h0)
        ELSE img

(***************************************************************************)
(* Normalization and LUT index, computeNDVI lines 440-453.  The range is   *)
(* given by the slider values lo, hi (vmin = lo / 100, vmax = hi / 100).   *)
(***************************************************************************)
\* lines 442-449: zero if vmax <= vmin, else (v - vmin) / (vmax - vmin)
\* with THRESH_TOZERO at 0 (which also takes NaN to 0) and THRESH_TRUNC at 1.
Normalized_Unguarded(v, lo, hi) ==
    LET s == IF hi >= lo THEN 1 ELSE -1
        num == s * (100 * v[1] - lo * v[2])
        den == s * v[2] * (hi - lo)
    IN  IF num <= 0 THEN Zero
        ELSE IF num >= den THEN <<1, 1>>
        ELSE <<num, den>>

\* Without the two thresholds of lines 447-448
Normalized_Unclamped(v, lo, hi) ==
    IF hi <= lo THEN Zero
    ELSE <<100 * v[1] - lo * v[2], v[2] * (hi - lo)>>

Normalized(v, lo, hi) ==
    IF hi <= lo THEN Zero
    ELSE LET num == 100 * v[1] - lo * v[2]
             den == v[2] * (hi - lo)
         IN  IF num <= 0 THEN Zero
             ELSE IF num >= den THEN <<1, 1>>
             ELSE <<num, den>>

\* 255 * n lies exactly half way between two integers.
IsTie(n) == (2 * 255 * n[1]) % (2 * n[2]) = n[2]

\* A fraction that a float holds exactly (of the few bits of the model).
IsDyadic(v) ==
    LET d == Reduced(<<Abs(v[1]), Abs(v[2])>>)[2] IN 2^Log2(d) = d

\* vmin = lo / 100.0f, vmax = hi / 100.0f and v are exact floats, so that
\* v - vmin and vmax - vmin are exact and their quotient correctly rounded.
ExactOperands(v, lo, hi) == lo % 25 = 0 /\ hi % 25 = 0 /\ IsDyadic(v)

\* A tie that the rounding errors of vmin, vmax or of the quotient move off
\* the half-way point, to either side.
InexactTie(v, lo, hi) ==
    /\ IsTie(Normalized(v, lo, hi))
    /\ ~(ExactOperands(v, lo, hi) /\ IsDyadic(Normalized(v, lo, hi)))

\* cvRound of an exact tie goes to the even neighbour.
TieToEven(n) == ((255 * n[1]) \div n[2]) % 2 = 1

\* line 453, convertTo(idx, CV_8U, 255.0): 255 * n rounded to the nearest
\* integer; `up` says to which side a tie goes.
Index(n, up) ==
    IF IsTie(n) THEN (255 * n[1]) \div n[2] + (IF up THEN 1 ELSE 0)
    ELSE (2 * 255 * n[1] + n[2]) \div (2 * n[2])

(***************************************************************************)
(* Palettes and the LUT, makeLUT lines 471-499 and changePalette.          *)
(***************************************************************************)
\* Qt's predefined colours
QtColor ==
    [white   |-> [red |-> 255, green |-> 255, blue |-> 255],
     black   |-> [red |-> 0,   green |-> 0,   blue |-> 0],
     red     |-> [red |-> 255, green |-> 0,   blue |-> 0],
     darkRed |-> [red |-> 128, green |-> 0,   blue |-> 0],
     green   |-> [red |-> 0,   green |-> 255, blue |-> 0],
     blue    |-> [red |-> 0,   green |-> 0,   blue |-> 255],
     yellow  |-> [red |-> 255, green |-> 255, blue |-> 0],
     gray    |-> [red |-> 160, green |-> 160, blue |-> 164]]

Palettes == { "NDVI Classic", "Infrared", "Thermal", "Grayscale" }

\* changePalette lines 711-718: the three anchors of a palette
Anchors(name) ==
    CASE name = "NDVI Classic" -> <<QtColor.white, QtColor.darkRed, QtColor.green>>
      [] name = "Infrared"     -> <<QtColor.black, QtColor.red, QtColor.white>>
      [] name = "Thermal"      -> <<QtColor.blue, QtColor.yellow, QtColor.red>>
      [] name = "Grayscale"    -> <<QtColor.black, QtColor.gray, QtColor.white>>

\* n / d rounded to the nearest integer, for n >= 0 and d > 0
RoundDiv(n, d) == (2 * n + d) \div (2 * d)

\* lines 476-492: one component of the colour interpolated at index i
\* between the 8-bit anchors c1, c2, c3 (t = i / 255 < 0.5 for i <= 127), as
\* QColor::fromRgbF keeps it, in units of 1/65535.
Interpolated(c1, c2, c3, i) ==
    LET a == IF i <= 127 THEN c1 ELSE c2
        b == IF i <= 127 THEN c2 ELSE c3
        k == IF i <= 127 THEN 2 * i ELSE 2 * i - 255
    IN  RoundDiv(257 * (255 * a + k * (b - a)), 255)

\* The colour c of line 477 at index i, each component as line 497 quantizes
\* it (convertTo(lut8, CV_8UC3, 255.0)).
PaletteColour(name, i) ==
    LET c == Anchors(name)
    IN  [red   |-> RoundDiv(Interpolated(c[1].red, c[2].red, c[3].red, i), 257),
         green |-> RoundDiv(Interpolated(c[1].green, c[2].green, c[3].green, i), 257),
         blue  |-> RoundDiv(Interpolated(c[1].blue, c[2].blue, c[3].blue, i), 257)]

\* lines 493-494: the entry stored at index i, channel by channel:
\* cv::Vec3f(c.redF(), c.greenF(), c.blueF())
LutEntry(name, i) ==
    LET c == PaletteColour(name, i) IN <<c.red, c.green, c.blue>>

\* lines 458-464: bchan, gchan, rchan are read from the LUT's channels 0, 1
\* and 2 and merged in that order into the BGR output.
ColouredPixel(name, i) ==
    LET e == LutEntry(name, i) IN <<e[1], e[2], e[3]>>

(***************************************************************************)
(* Telemetry mean, drawOverlay line 519.                                   *)
(***************************************************************************)
\* The sum of the pixels.  The values of the model add exactly, so the
\* order of the additions is immaterial; the halves keep the nesting low.
RECURSIVE SumSeq(_)
SumSeq(s) ==
    IF s = << >> THEN Zero
    ELSE IF Len(s) = 1 THEN s[1]
    ELSE LET h == Len(s) \div 2
         IN  FracAdd(SumSeq(SubSeq(s, 1, h)), SumSeq(SubSeq(s, h + 1, Len(s))))

RECURSIVE Concat(_)
Concat(m) == IF m = << >> THEN << >> ELSE Head(m) \o Concat(Tail(m))

\* cv::mean(ndvi)[0]: the sum of all pixels over their number
Mean(m) ==
    LET sum == SumSeq(Concat(m))
    IN  IF IsNaN(sum) THEN NaN
        ELSE Reduced(<<sum[1], sum[2] * Rows(m) * Cols(m)>>)

NoTelemetry == [drawn |-> FALSE, fps |-> 0, mean |-> Zero]

(***************************************************************************)
(* Histogram, updatePreview lines 916-929.                                 *)
(***************************************************************************)
HistBins == 50

NoHistogram == [b \in 0..(HistBins - 1) |-> 0]

\* lines 917-921: copyTo with the mask of the non-NaN pixels into a new
\* matrix, which copyTo zero-fills first; data holds every pixel of it.
Valid(v) == IF IsNaN(v) THEN Zero ELSE v

\* (v - vmin) / (vmax - vmin) * bins is a positive whole number in exact
\* arithmetic, and the float quotient is not exact.
OnBinEdge(v, lo, hi) ==
    /\ hi # lo
    /\ (hi > lo) = (100 * v[1] > lo * v[2])
    /\ (HistBins * Abs(100 * v[1] - lo * v[2])) % (v[2] * Abs(hi - lo)) = 0
    /\ ~(ExactOperands(v, lo, hi)
          /\ IsDyadic(<<100 * v[1] - lo * v[2], v[2] * (hi - lo)>>))

\* lines 926-927.  With vmax = vmin the quotient is an infinity or a NaN and
\* its conversion to int is undefined: builds whose conversion saturates
\* give INT_MAX for +inf, the others INT_MIN throughout.  On a bin edge the
\* rounding errors of the floats can leave the product just below the
\* whole number; `low` says whether they do.
Bin(v, lo, hi, low, saturating) ==
    IF hi = lo
    THEN IF saturating /\ 100 * v[1] > lo * v[2] THEN HistBins - 1 ELSE 0
    ELSE LET s == IF hi > lo THEN 1 ELSE -1
             num == s * HistBins * (100 * v[1] - lo * v[2])
             den == s * v[2] * (hi - lo)
         IN  IF num <= 0 THEN 0
             ELSE LET b == num \div den
                           - (IF num % den = 0 /\ low THEN 1 ELSE 0)
                  IN  IF b >= HistBins THEN HistBins - 1 ELSE b

EdgeValues(m, lo, hi) ==
    { Valid(m[p[1]][p[2]]) : p \in { q \in Pixels(m) :
                                       OnBinEdge(Valid(m[q[1]][q[2]]), lo, hi) } }

Histogram(m, lo, hi, low, saturating) ==
    CHOOSE h \in
        { [b \in 0..(HistBins - 1) |->
              Cardinality({ p \in DOMAIN bin : bin[p] = b })] :
          bin \in { [p \in Pixels(m) |->
                       LET v == Valid(m[p[1]][p[2]])
                       IN  Bin(v, lo, hi, v \in DOMAIN low /\ low[v],
                               saturating)] } } : TRUE

(***************************************************************************)
(* State.                                                                  *)
(***************************************************************************)
VARIABLES
    clock,              \* cv::getTickCount(), in ticks
    nTicks,             \* clock advances so far
    threads,            \* the CaptureThread objects, by number
    nThreads,           \* CaptureThread objects created so far
    nRead,              \* frames read from the camera so far
    queue,              \* events posted to the render context, oldest first
    render,             \* "idle", "inStop", "inCloseStop", "closed", "fault"
    m_captureThread,    \* 0 for nullptr, else the number of a CaptureThread
    startEnabled,       \* m_startBtn->isEnabled()
    abortEnabled,       \* m_abortBtn->isEnabled()
    minSlider,          \* m_minSlider->value()
    maxSlider,          \* m_maxSlider->value()
    recordChecked,      \* m_recordBtn->isChecked()
    writerOpen,         \* m_videoWriter.isOpened()
    m_lastNDVI,         \* NDVI matrix of the last processed frame
    m_lastProcessTime,  \* float
    logCam,             \* the last camera message in the log pane
    logRec,             \* the last recording message in the log pane
    logCal,             \* the last auto-calibration message in the log pane
    roi,                \* m_roiToggle and the four ROI sliders, in percent
    delivered,          \* frames handed to onFrameReady, oldest first
    rawShown,           \* frames published on the raw view, oldest first
    procLog,            \* processed-path executions, oldest first
    lastTag,            \* the last processed frame carried the REC tag
    lastWrite,          \* the last frame written to the recording, 0 if none
    m_lut,              \* "empty", or the palette the LUT was built from
    m_fps,              \* float, the FPS figure of the telemetry panel
    norm,               \* computeNDVI's normalized image of the last call
    idx,                \* computeNDVI's LUT indices of the last call
    coloured,           \* computeNDVI's coloured BGR image of the last call
    telemetry,          \* the figures drawOverlay last put on the panel
    zoom,               \* m_zoomSlider->value()
    hist,               \* the bins of the histogram updatePreview last drew
    sample,             \* autoCalibrate's sample of the last call
    calIdx,             \* autoCalibrate's n, idx2, idx98 of the last call
    percentiles,        \* autoCalibrate's p2, p98 of the last call
    logRegion           \* the last sample-region message in the log pane

captureVars == <<threads, nThreads, nRead>>

cameraUi == <<m_captureThread, startEnabled, abortEnabled, logCam>>

calVars == <<sample, calIdx, percentiles, logRegion>>

rangeVars == <<minSlider, maxSlider, logCal, roi, sample, calIdx, percentiles,
               logRegion>>

recordVars == <<recordChecked, writerOpen, logRec>>

frameVars == <<m_lastNDVI, m_lastProcessTime, delivered, rawShown, procLog,
               lastTag, lastWrite, m_lut, m_fps, norm, idx, coloured,
               telemetry>>

viewVars == <<zoom, hist>>

vars == <<clock, nTicks, threads, nThreads, nRead, queue, render,
          m_captureThread, startEnabled, abortEnabled, minSlider, maxSlider,
          recordChecked, writerOpen, m_lastNDVI, m_lastProcessTime, logCam,
          logRec, logCal, roi, delivered, rawShown, procLog, lastTag, lastWrite,
          m_lut, m_fps, norm, idx, coloured, telemetry, zoom, hist, sample,
          calIdx, percentiles, logRegion>>

ThreadIds == 1..MaxThreads

\* A CaptureThread that startCamera has not created yet.
NoThread == [pc |-> "none", m_running |-> FALSE, opened |-> FALSE,
             deleted |-> FALSE, why |-> "none"]

\* CaptureThread::CaptureThread followed by QThread::start.
NewThread == [pc |-> "start", m_running |-> FALSE, opened |-> FALSE,
              deleted |-> FALSE, why |-> "none"]

\* QThread::isRunning(): from start() until run() has returned.
IsRunning(t) == threads[t].pc \in {"start", "open", "loopTest", "body"}

Alive == render # "fault"

(***************************************************************************)
(* Settings file read by restoreSettings in the constructor: absent, or an *)
(* object with "min" and "max".  QSlider::setValue clamps to the range.    *)
(***************************************************************************)
SliderMin == -100

SliderMax == 100

Clamp(v) ==
    IF v < SliderMin THEN SliderMin ELSE IF v > SliderMax THEN SliderMax ELSE v

\* setupUI lines 287-301
DefaultRoi == [on |-> FALSE, left |-> 0, right |-> 100, top |-> 0,
               bottom |-> 100]

NoSettings == [present |-> FALSE, min |-> 0, max |-> 0]

SettingsFiles ==
    { NoSettings,
      [present |-> TRUE, min |-> -25, max |-> 60],
      [present |-> TRUE, min |-> 250, max |-> 40] }

\* restoreSettings lines 380-385 on the sliders setupUI has built (min at
\* the QSlider default 0, max set to 100).
RestoredMin(file) == IF file.present THEN Clamp(file.min) ELSE 0

RestoredMax(file) == IF file.present THEN Clamp(file.max) ELSE 100

\* The state NDVIApp::NDVIApp leaves, but for LastNDVI and the ROI controls,
\* which the scenarios of the statistics functions are given.
Started(boot, file, ndvi, r) ==
    /\ clock = boot
    /\ nTicks = 0
    /\ threads = [t \in ThreadIds |-> NoThread]
    /\ nThreads = 0
    /\ nRead = 0
    /\ queue = << >>
    /\ render = "idle"
    /\ m_captureThread = 0
    /\ startEnabled = TRUE
    /\ abortEnabled = FALSE
    /\ minSlider = RestoredMin(file)
    /\ maxSlider = RestoredMax(file)
    /\ recordChecked = FALSE
    /\ writerOpen = FALSE
    /\ m_lastNDVI = ndvi
    /\ m_lastProcessTime = 0
    /\ logCam = "none"
    /\ logRec = "none"
    /\ logCal = "none"
    /\ roi = r
    /\ delivered = << >>
    /\ rawShown = << >>
    /\ procLog = << >>
    /\ lastTag = FALSE
    /\ lastWrite = 0
    /\ m_lut = "empty"
    /\ m_fps = 0
    /\ norm = EmptyImage
    /\ idx = EmptyImage
    /\ coloured = EmptyImage
    /\ telemetry = NoTelemetry
    /\ zoom = 1
    /\ hist = NoHistogram
    /\ sample = EmptyImage
    /\ calIdx = <<0, 0, 0>>
    /\ percentiles = <<Zero, Zero>>
    /\ logRegion = "none"

\* NDVIApp::NDVIApp
Constructed(boot, file) == Started(boot, file, EmptyImage, DefaultRoi)

Init == \E boot \in BootTimes : Constructed(boot, NoSettings)

(***************************************************************************)
(* The capture thread, CaptureThread::run.  When run returns QThread emits *)
(* finished() and wakes wait(); both belong to the step that leaves run.   *)
(***************************************************************************)
FrameEvent(f) == [type |-> "frame", frame |-> f, src |-> 0]

FinishedEvent(t) == [type |-> "finished", frame |-> EmptyFrame, src |-> t]

\* emit across threads (the connections of startCamera lines 587-590 are
\* queued): the event goes to the back of the receiver's queue.
Posted_Front(q, e) == <<e>> \o q

Posted(q, e) == Append(q, e)

\* line 25: m_running = true
RunBegin(t) ==
    /\ Alive
    /\ threads[t].pc = "start"
    /\ threads' = [threads EXCEPT ![t].pc = "open", ![t].m_running = TRUE]
    /\ UNCHANGED <<clock, nTicks, nThreads, nRead, queue, render, cameraUi,
                   rangeVars, recordVars, frameVars, viewVars>>

\* lines 26-31: openCamera; on failure one empty frame is emitted and run
\* returns.
RunOpen(t) ==
    /\ Alive
    /\ threads[t].pc = "open"
    /\ \E ok \in BOOLEAN :
         IF ok
         THEN /\ threads' = [threads EXCEPT ![t].pc = "loopTest",
                                            ![t].opened = TRUE]
              /\ UNCHANGED queue
         ELSE /\ threads' = [threads EXCEPT ![t].pc = "finished",
                                            ![t].why = "openfail"]
              /\ queue' = Posted(Posted(queue, FrameEvent(EmptyFrame)),
                               FinishedEvent(t))
    /\ UNCHANGED <<clock, nTicks, nThreads, nRead, render, cameraUi,
                   rangeVars, recordVars, frameVars, viewVars>>

\* line 33: while (m_running && m_capture.isOpened()).  m_running is a plain
\* bool that stop() writes from the render context; the calls in the loop
\* body are opaque to the compiler, so the flag is loaded again at each test.
LoopCondition(t) == threads[t].m_running /\ threads[t].opened

LoopTest(t) ==
    /\ Alive
    /\ threads[t].pc = "loopTest"
    /\ IF LoopCondition(t)
       THEN /\ threads' = [threads EXCEPT ![t].pc = "body"]
            /\ UNCHANGED queue
       ELSE /\ threads' = [threads EXCEPT ![t].pc = "finished",
                                          ![t].why = "stopped"]
            /\ queue' = Posted(queue, FinishedEvent(t))
    /\ UNCHANGED <<clock, nTicks, nThreads, nRead, render, cameraUi,
                   rangeVars, recordVars, frameVars, viewVars>>

\* lines 34-42: one read; a failed read leaves the loop, a frame is emitted
\* (queued to the render context) and the thread sleeps 1 ms.
LoopBody(t) ==
    /\ Alive
    /\ threads[t].pc = "body"
    /\ \/ /\ threads' = [threads EXCEPT ![t].pc = "finished",
                                        ![t].why = "readfail"]
          /\ queue' = Posted(queue, FinishedEvent(t))
          /\ UNCHANGED nRead
       \/ /\ nRead < MaxFrames
          /\ queue' = Posted(queue, FrameEvent([seq |-> nRead + 1,
                                                img |-> CameraImage(nRead + 1)]))
          /\ nRead' = nRead + 1
          /\ threads' = [threads EXCEPT ![t].pc = "loopTest"]
    /\ UNCHANGED <<clock, nTicks, nThreads, render, cameraUi,
                   rangeVars, recordVars, frameVars, viewVars>>

(***************************************************************************)
(* The render context, NDVIApp.                                            *)
(***************************************************************************)
\* `delete m_captureThread` (line 614): nothing for nullptr; ~QThread on a
\* thread that still runs is fatal ("Destroyed while thread is still
\* running"); otherwise the object and its VideoCapture go.
DeleteIsFatal_Never == FALSE

DeleteIsFatal == m_captureThread # 0 /\ IsRunning(m_captureThread)

ThreadsAfterDelete ==
    IF m_captureThread = 0 THEN threads
    ELSE [threads EXCEPT ![m_captureThread].deleted = TRUE,
                         ![m_captureThread].opened = FALSE]

\* onCaptureStopped lines 612-619; `after` is the position it returns to.
OnCaptureStopped(after) ==
    IF DeleteIsFatal
    THEN /\ render' = "fault"
         /\ UNCHANGED <<threads, cameraUi>>
    ELSE /\ threads' = ThreadsAfterDelete
         /\ m_captureThread' = 0
         /\ startEnabled' = TRUE
         /\ abortEnabled' = FALSE
         /\ logCam' = "Feed off"
         /\ render' = after

\* startCamera lines 579-595, run by a click on the enabled start button.
StartCamera ==
    /\ render = "idle"
    /\ startEnabled
    /\ IF m_captureThread # 0 /\ IsRunning(m_captureThread)
       THEN /\ logCam' = "Camera already running"
            /\ UNCHANGED <<captureVars, m_captureThread, startEnabled,
                           abortEnabled>>
       ELSE /\ nThreads < MaxThreads
            /\ nThreads' = nThreads + 1
            /\ threads' = [threads EXCEPT ![nThreads + 1] = NewThread]
            /\ m_captureThread' = nThreads + 1
            /\ startEnabled' = FALSE
            /\ abortEnabled' = TRUE
            /\ logCam' = "Feed on"
            /\ UNCHANGED nRead
    /\ UNCHANGED <<clock, nTicks, queue, render, rangeVars, recordVars,
                   frameVars, viewVars>>

\* CaptureThread::stop line 51: m_running = false, then wait().
StopBegin(waiting) ==
    /\ threads' = [threads EXCEPT ![m_captureThread].m_running = FALSE]
    /\ render' = waiting
    /\ UNCHANGED cameraUi

\* stopCamera lines 600-607, run by a click on the enabled abort button.
StopCamera ==
    /\ render = "idle"
    /\ abortEnabled
    /\ IF m_captureThread # 0 /\ IsRunning(m_captureThread)
       THEN StopBegin("inStop")
       ELSE OnCaptureStopped("idle")
    /\ UNCHANGED <<clock, nTicks, nThreads, nRead, queue, rangeVars,
                   recordVars, frameVars, viewVars>>

\* closeEvent lines 964-972: stopCamera, saveSettings, release of the
\* writer; when stopCamera has to wait the rest follows in StopReturn.
CloseEvent ==
    /\ render = "idle"
    /\ IF m_captureThread # 0 /\ IsRunning(m_captureThread)
       THEN /\ StopBegin("inCloseStop")
            /\ UNCHANGED recordVars
       ELSE /\ OnCaptureStopped("closed")
            /\ writerOpen' = FALSE
            /\ UNCHANGED <<recordChecked, logRec>>
    /\ UNCHANGED <<clock, nTicks, nThreads, nRead, queue, rangeVars,
                   frameVars, viewVars>>

\* CaptureThread::stop lines 52-56: wait() returns once the thread has
\* finished, the device is released, and stopCamera (or the rest of
\* closeEvent: saveSettings, release of the writer) goes on.
StopReturn ==
    /\ render \in {"inStop", "inCloseStop"}
    /\ threads[m_captureThread].pc = "finished"
    /\ threads' = [threads EXCEPT ![m_captureThread].opened = FALSE]
    /\ IF render = "inStop"
       THEN /\ render' = "idle"
            /\ UNCHANGED recordVars
       ELSE /\ render' = "closed"
            /\ writerOpen' = FALSE
            /\ UNCHANGED <<recordChecked, logRec>>
    /\ UNCHANGED <<clock, nTicks, nThreads, nRead, queue, cameraUi,
                   rangeVars, frameVars, viewVars>>

\* line 632: now - m_lastProcessTime < m_processInterval
Throttled_Never(now) == FALSE

Throttled(now) == now - m_lastProcessTime < MinProcessGap

\* line 635: m_lastProcessTime = now, a double stored into a float
StoredProcessTime(now) == ToFloat(now)

\* drawOverlay line 570: the REC tag
RecTag == recordChecked

\* drawOverlay lines 506-574 with the telemetry panel on (m_telemChk is
\* checked by setupUI): the FPS and mean figures, and the REC tag.
DrawOverlay(ndvi) ==
    /\ telemetry' = [drawn |-> TRUE, fps |-> m_fps, mean |-> Mean(ndvi)]
    /\ lastTag' = RecTag

\* The NDVI values of a matrix whose index is an inexact tie.
TieValues(m, lo, hi) ==
    { m[p[1]][p[2]] : p \in { q \in Pixels(m) :
                                 InexactTie(m[q[1]][q[2]], lo, hi) } }

\* computeNDVI lines 440-465 on the NDVI matrix of lines 425-438.
ComputeNDVI(ndvi, lo, hi, lut) ==
    LET normalized == [y \in 1..Rows(ndvi) |-> [x \in 1..Cols(ndvi) |->
                          Normalized(ndvi[y][x], lo, hi)]]
    IN  /\ norm' = normalized
        /\ \E up \in [TieValues(ndvi, lo, hi) -> BOOLEAN] :
              idx' = [y \in 1..Rows(ndvi) |-> [x \in 1..Cols(ndvi) |->
                        Index(normalized[y][x],
                              IF ndvi[y][x] \in DOMAIN up THEN up[ndvi[y][x]]
                              ELSE TieToEven(normalized[y][x]))]]
        /\ coloured' = [y \in 1..Rows(ndvi) |-> [x \in 1..Cols(ndvi) |->
                          ColouredPixel(lut, idx'[y][x])]]

\* line 687: m_recordBtn->isChecked() && m_videoWriter.isOpened()
RecordActive_CheckedOnly == recordChecked

RecordActive == recordChecked /\ writerOpen

\* setPixmap lines 882-891: cv::cvtColor rejects an empty image with a
\* cv::Exception, which nothing catches.
SetPixmapThrows(img) == IsEmpty(img)

\* onFrameReady lines 625-690, entered when the clock reads `now`.
OnFrameReady(f, now) ==
    /\ delivered' = Append(delivered, f.seq)
    /\ IF SetPixmapThrows(f.img)
       THEN /\ render' = "fault"
            /\ UNCHANGED <<rawShown, m_lastNDVI, m_lastProcessTime, procLog,
                           lastTag, lastWrite, m_lut, m_fps, norm, idx,
                           coloured, telemetry>>
       ELSE /\ rawShown' = Append(rawShown, f.seq)
            /\ UNCHANGED render
            /\ IF Throttled(now)
               THEN UNCHANGED <<m_lastNDVI, m_lastProcessTime, procLog,
                                lastTag, lastWrite, m_lut, m_fps, norm, idx,
                                coloured, telemetry>>
               ELSE LET procInput == Zoomed(f.img, zoom)
                        lut == IF m_lut = "empty" THEN "NDVI Classic"
                               ELSE m_lut
                        ndviMat == NDVIMatrix(procInput)
                    IN  /\ m_lastProcessTime' = StoredProcessTime(now)
                        /\ m_lut' = lut
                        /\ ComputeNDVI(ndviMat, minSlider, maxSlider, lut)
                        /\ m_lastNDVI' = ndviMat
                        /\ DrawOverlay(ndviMat)
                        /\ procLog' = Append(procLog,
                                             [seq |-> f.seq, now |-> now])
                        /\ lastWrite' = IF RecordActive THEN f.seq
                                        ELSE lastWrite
                        /\ UNCHANGED m_fps

\* The event loop hands the oldest posted event to its slot; d is the time
\* that has passed since the last frame was handled.  After closeEvent the
\* loop still runs until the application quits.
DeliverFrame(d) ==
    /\ render \in {"idle", "closed"}
    /\ queue # << >>
    /\ Head(queue).type = "frame"
    /\ d = 0 \/ nTicks < MaxTicks
    /\ clock' = clock + d
    /\ nTicks' = IF d = 0 THEN nTicks ELSE nTicks + 1
    /\ queue' = Tail(queue)
    /\ OnFrameReady(Head(queue).frame, clock + d)
    /\ UNCHANGED <<captureVars, cameraUi, rangeVars, recordVars, viewVars>>

DeliverFinished ==
    /\ render \in {"idle", "closed"}
    /\ queue # << >>
    /\ Head(queue).type = "finished"
    /\ queue' = Tail(queue)
    /\ OnCaptureStopped(render)
    /\ UNCHANGED <<clock, nTicks, nThreads, nRead, rangeVars, recordVars,
                   frameVars, viewVars>>

\* A click on the checkable record button flips it and emits toggled, which
\* runs toggleRecording lines 748-767.  On a failed open setChecked(false)
\* emits toggled(false), and the nested toggleRecording(false) finds the
\* writer closed and logs nothing.
CheckedAfterFailedOpen_Kept == TRUE

CheckedAfterFailedOpen == FALSE

ToggleRecording ==
    /\ render = "idle"
    /\ IF ~recordChecked
       THEN \E opened \in BOOLEAN :
              IF opened
              THEN /\ recordChecked' = TRUE
                   /\ writerOpen' = TRUE
                   /\ logRec' = "Recording started"
              ELSE /\ recordChecked' = CheckedAfterFailedOpen
                   /\ writerOpen' = FALSE
                   /\ logRec' = "Record init failed"
       ELSE /\ recordChecked' = FALSE
            /\ writerOpen' = FALSE
            /\ logRec' = IF writerOpen THEN "Recording stopped" ELSE logRec
    /\ UNCHANGED <<clock, nTicks, captureVars, queue, render, cameraUi,
                   rangeVars, frameVars, viewVars>>

(***************************************************************************)
(* Range: the min/max sliders, the ROI controls and autoCalibrate.         *)
(***************************************************************************)
\* Positions the operator drags a range slider to.
SliderInputs == { -50, 50 }

\* States the operator leaves the ROI controls in.
RoiInputs ==
    { DefaultRoi,
      [on |-> TRUE, left |-> 0, right |-> 50, top |-> 0, bottom |-> 100],
      [on |-> TRUE, left |-> 50, right |-> 50, top |-> 0, bottom |-> 100] }

SetMinSlider(v) ==
    /\ render = "idle"
    /\ v # minSlider
    /\ minSlider' = Clamp(v)
    /\ UNCHANGED <<clock, nTicks, captureVars, queue, render, m_captureThread,
                   startEnabled, abortEnabled, logCam, maxSlider, logCal, roi, calVars,
                   recordVars, frameVars, viewVars>>

SetMaxSlider(v) ==
    /\ render = "idle"
    /\ v # maxSlider
    /\ maxSlider' = Clamp(v)
    /\ UNCHANGED <<clock, nTicks, captureVars, queue, render, m_captureThread,
                   startEnabled, abortEnabled, logCam, minSlider, logCal, roi, calVars,
                   recordVars, frameVars, viewVars>>

SetRoi(r) ==
    /\ render = "idle"
    /\ r # roi
    /\ roi' = r
    /\ UNCHANGED <<clock, nTicks, captureVars, queue, render, m_captureThread,
                   startEnabled, abortEnabled, logCam, minSlider, maxSlider,
                   logCal, calVars, recordVars, frameVars, viewVars>>

\* int(pct / 100.0f * size), lines 785-788 (exact for the percentages and
\* sizes of the model).
RoiPixel(pct, size) == (pct * size) \div 100

\* x1 >= x0 && y1 >= y0 in place of line 789
RoiValid_Lenient(m) ==
    /\ RoiPixel(roi.right, Cols(m)) >= RoiPixel(roi.left, Cols(m))
    /\ RoiPixel(roi.bottom, Rows(m)) >= RoiPixel(roi.top, Rows(m))

\* lines 780-799: the sample, as the sequence of its rows.
RoiValid(m) ==
    /\ RoiPixel(roi.right, Cols(m)) > RoiPixel(roi.left, Cols(m))
    /\ RoiPixel(roi.bottom, Rows(m)) > RoiPixel(roi.top, Rows(m))

Sample(m) ==
    IF roi.on /\ RoiValid(m)
    THEN [y \in 1..(RoiPixel(roi.bottom, Rows(m)) - RoiPixel(roi.top, Rows(m))) |->
            [x \in 1..(RoiPixel(roi.right, Cols(m)) - RoiPixel(roi.left, Cols(m))) |->
               m[RoiPixel(roi.top, Rows(m)) + y][RoiPixel(roi.left, Cols(m)) + x]]]
    ELSE m

\* lines 782-798: the message about the region sampled
RegionMessage(m) ==
    IF ~roi.on THEN "AutoCalib: using full frame"
    ELSE IF RoiValid(m) THEN "AutoCalib: using ROI region"
    ELSE "AutoCalib: invalid ROI, using full frame"

\* lines 801-811: the values of the sample, row by row, that pass v == v
Flatten(m) == SelectSeq(Concat(m), LAMBDA v : ~IsNaN(v))

\* Order of two fractions with positive denominators.
FracLeq_Descending(a, b) == b[1] * a[2] <= a[1] * b[2]

FracLeq(a, b) == a[1] * b[2] <= b[1] * a[2]

\* std::sort, line 818, as a merge sort: the element a[i] goes behind the
\* elements of b that are before it, b[j] behind those of a not after it.
Merged(a, b, posA, posB) ==
    [k \in 1..(Len(a) + Len(b)) |->
        IF \E i \in 1..Len(a) : posA[i] = k
        THEN a[CHOOSE i \in 1..Len(a) : posA[i] = k]
        ELSE b[CHOOSE j \in 1..Len(b) : posB[j] = k]]

Merge(a, b) ==
    CHOOSE m \in
        { Merged(a, b, posA, posB) :
            posA \in { [i \in 1..Len(a) |->
                i + Cardinality({ j \in 1..Len(b) : ~FracLeq(a[i], b[j]) })] },
            posB \in { [j \in 1..Len(b) |->
                j + Cardinality({ i \in 1..Len(a) : FracLeq(a[i], b[j]) })] } } :
        TRUE

RECURSIVE Sorted(_)
Sorted(s) ==
    IF Len(s) <= 1 THEN s
    ELSE LET h == Len(s) \div 2
         IN  CHOOSE m \in { Merge(a, b) : a \in { Sorted(SubSeq(s, 1, h)) },
                                          b \in { Sorted(SubSeq(s, h + 1, Len(s))) } } :
                 TRUE

Max2(a, b) == IF a >= b THEN a ELSE b

Min2(a, b) == IF a <= b THEN a ELSE b

\* line 820: int(0.02f * n), 0-based.  The float product, truncated, is
\* the floor of n / 50 for every n below 2^22.
Idx2(n) == Max2(0, (2 * n) \div 100)

\* line 821: int(0.98f * n).  0.98f is 16441672 * 2^-24, that is
\* 1 - Defect98 * 2^-21.  Product98(n) is the exact product, as <<i, f>> for
\* i + f * 2^-21 with f < 2^21 (n < 2^22).
Defect98 == 41943

Product98(n) ==
    LET a == n \div 1024
        b == n % 1024
        fsum == ((Defect98 * a) % 2048) * 1024 + ((Defect98 * b) % (2^21))
        tInt == ((Defect98 * a) \div 2048) + ((Defect98 * b) \div (2^21))
                + (fsum \div (2^21))
        tFrac == fsum % (2^21)
    IN  IF tFrac = 0 THEN <<n - tInt, 0>> ELSE <<n - tInt - 1, 2^21 - tFrac>>

\* The product is rounded to a float (24 significant bits, ties to even)
\* and int() drops the fraction: the whole part goes up by one when the
\* rounding reaches the next whole number.
TruncatedFloat(x) ==
    LET spacing == 2^(Log2(x[1]) - 2)
    IN  IF x[1] >= 4 /\ 2 * x[2] >= 2^22 - spacing THEN x[1] + 1 ELSE x[1]

Idx98(n) == Min2(n - 1, TruncatedFloat(Product98(n)))

\* 100 v to the nearest integer, halves away from zero
Hundredths_Rounded(v) ==
    IF v[1] >= 0 THEN (200 * v[1] + v[2]) \div (2 * v[2])
    ELSE -((200 * (-v[1]) + v[2]) \div (2 * v[2]))

\* lines 826-827: int(p * 100.0f) truncates towards zero
Hundredths(v) ==
    IF v[1] >= 0 THEN (100 * v[1]) \div v[2] ELSE -((100 * (-v[1])) \div v[2])

\* lines 775, 697: m_lastNDVI.empty()
NoFrameYet_Never == FALSE

NoFrameYet == IsEmpty(m_lastNDVI)

\* autoCalibrate lines 773-829.
AutoCalibrate ==
    /\ render = "idle"
    /\ IF NoFrameYet
       THEN /\ logCal' = "AutoCalib: no frame yet"
            /\ UNCHANGED <<minSlider, maxSlider, calVars>>
       ELSE \E vals \in { Sorted(Flatten(Sample(m_lastNDVI))) } :
            LET n == Len(vals)
            IN  /\ sample' = Sample(m_lastNDVI)
                /\ logRegion' = RegionMessage(m_lastNDVI)
                /\ IF n = 0
                   THEN /\ logCal' = "AutoCalib: no valid NDVI values"
                        /\ UNCHANGED <<minSlider, maxSlider, calIdx,
                                       percentiles>>
                   ELSE LET p2 == vals[Idx2(n) + 1]
                            p98 == vals[Idx98(n) + 1]
                        IN  /\ calIdx' = <<n, Idx2(n), Idx98(n)>>
                            /\ percentiles' = <<p2, p98>>
                            /\ minSlider' = Clamp(Hundredths(p2))
                            /\ maxSlider' = Clamp(Hundredths(p98))
                            /\ logCal' = "AutoCalib"
    /\ UNCHANGED <<clock, nTicks, captureVars, queue, render, m_captureThread,
                   startEnabled, abortEnabled, logCam, roi, recordVars,
                   frameVars, viewVars>>

\* onPreviewTimer lines 695-703 and the histogram of updatePreview.
OnPreviewTimer ==
    /\ render = "idle"
    /\ IF NoFrameYet
       THEN UNCHANGED hist
       ELSE \E saturating \in (IF maxSlider = minSlider THEN BOOLEAN
                                ELSE {FALSE}) :
            \E low \in [EdgeValues(m_lastNDVI, minSlider, maxSlider)
                            -> BOOLEAN] :
              hist' = Histogram(m_lastNDVI, minSlider, maxSlider, low,
                                saturating)
    /\ UNCHANGED <<clock, nTicks, captureVars, queue, render, cameraUi,
                   rangeVars, recordVars, frameVars, zoom>>

\* changePalette lines 709-724, run when the palette box changes to `name`;
\* the box shows "NDVI Classic" until then.
ChangePalette(name) ==
    /\ render = "idle"
    /\ name # (IF m_lut = "empty" THEN "NDVI Classic" ELSE m_lut)
    /\ m_lut' = name
    /\ UNCHANGED <<clock, nTicks, captureVars, queue, render, cameraUi,
                   rangeVars, recordVars, m_lastNDVI, m_lastProcessTime,
                   delivered, rawShown, procLog, lastTag, lastWrite, m_fps,
                   norm, idx, coloured, telemetry, viewVars>>

\* Positions the operator drags the zoom slider (range 1..4, line 260) to.
ZoomInputs == { 1, 2, 3 }

\* onZoomChanged lines 861-865 only logs; the slider keeps the value.
SetZoom(z) ==
    /\ render = "idle"
    /\ z # zoom
    /\ zoom' = z
    /\ UNCHANGED <<clock, nTicks, captureVars, queue, render, cameraUi,
                   rangeVars, recordVars, frameVars, hist>>

Next ==
    \/ \E t \in ThreadIds : RunBegin(t)
    \/ \E t \in ThreadIds : RunOpen(t)
    \/ \E t \in ThreadIds : LoopTest(t)
    \/ \E t \in ThreadIds : LoopBody(t)
    \/ \E d \in Delays : DeliverFrame(d)
    \/ DeliverFinished
    \/ StartCamera
    \/ StopCamera
    \/ StopReturn
    \/ CloseEvent
    \/ ToggleRecording

Spec == Init /\ [][Next]_vars

\* The range controls on a started camera: the constructor has restored
\* any settings file.
RangeInit ==
    \E file \in SettingsFiles : Constructed(65536 * TicksPerSec + 60, file)

RangeNext ==
    \/ \E t \in ThreadIds : RunBegin(t)
    \/ \E t \in ThreadIds : RunOpen(t)
    \/ \E t \in ThreadIds : LoopTest(t)
    \/ \E t \in ThreadIds : LoopBody(t)
    \/ \E d \in Delays : DeliverFrame(d)
    \/ DeliverFinished
    \/ StartCamera
    \/ \E v \in SliderInputs : SetMinSlider(v)
    \/ \E v \in SliderInputs : SetMaxSlider(v)
    \/ \E r \in RoiInputs : SetRoi(r)
    \/ AutoCalibrate

RangeSpec == RangeInit /\ [][RangeNext]_vars

\* The throttle scenario: frames arrive at onFrameReady one millisecond
\* apart, the first when the application has just been constructed.
BurstFrame ==
    /\ Len(delivered) < MaxBurst
    /\ render = "idle"
    /\ LET k == Len(delivered) + 1
           now == IF k = 1 THEN clock ELSE clock + Millisecond
       IN  /\ clock' = now
           /\ OnFrameReady([seq |-> k, img |-> CameraImage(k)], now)
    /\ UNCHANGED <<nTicks, captureVars, queue, cameraUi, rangeVars, recordVars,
                   viewVars>>

ThrottleSpec == Init /\ [][BurstFrame]_vars

\* The kernel under the operator's controls: frames arrive at onFrameReady
\* at once or 96.875 ms after the one before, between changes of range,
\* palette and zoom.
KernelFrame(d) ==
    /\ Len(delivered) < MaxKernelFrames
    /\ render = "idle"
    /\ clock' = clock + d
    /\ OnFrameReady([seq |-> Len(delivered) + 1,
                     img |-> SceneImage(Len(delivered) + 1)], clock + d)
    /\ UNCHANGED <<nTicks, captureVars, queue, cameraUi, rangeVars, recordVars,
                   viewVars>>

KernelNext ==
    \/ \E d \in Delays : KernelFrame(d)
    \/ \E v \in SliderInputs : SetMinSlider(v)
    \/ \E v \in SliderInputs : SetMaxSlider(v)
    \/ \E z \in ZoomInputs : SetZoom(z)
    \/ \E name \in Palettes : ChangePalette(name)

KernelSpec == RangeInit /\ [][KernelNext]_vars

(***************************************************************************)
(* Frames between preview ticks, palette changes, zoom changes and         *)
(* auto-calibrations.                                                      *)
(***************************************************************************)
PreviewNext ==
    \/ \E d \in Delays : KernelFrame(d)
    \/ OnPreviewTimer
    \/ AutoCalibrate
    \/ \E z \in ZoomInputs : SetZoom(z)
    \/ \E name \in Palettes : ChangePalette(name)

PreviewSpec == RangeInit /\ [][PreviewNext]_vars

(***************************************************************************)
(* The statistics functions (the mean of drawOverlay, the histogram of     *)
(* updatePreview, autoCalibrate) on NDVI matrices they are given: none, of *)
(* a frame, with NaN pixels, and a large one with one lowest and one       *)
(* highest value.                                                          *)
(***************************************************************************)
HalfNaN == << << NaN, <<1, 2>> >>,
              << NaN, <<-1, 2>> >> >>

AllNaN == << << NaN, NaN >>,
             << NaN, NaN >> >>

BigNdvi ==
    [y \in 1..BigRows |-> [x \in 1..BigCols |->
        IF y = 1 /\ x = 1 THEN <<-1, 1>>
        ELSE IF y = BigRows /\ x = BigCols THEN <<1, 1>>
        ELSE <<((y + 3 * x) % 5) - 2, 4>>]]

NdviInputs == { EmptyImage, NDVIMatrix(ImgC), HalfNaN, AllNaN, BigNdvi }

\* Positions of the ROI sliders (range 0..100, lines 294-300)
RoiPercents == { 0, 50, 100 }

RoiGrid ==
    { DefaultRoi } \cup
    { [on |-> TRUE, left |-> l, right |-> r, top |-> t, bottom |-> b] :
        l \in RoiPercents, r \in RoiPercents, t \in RoiPercents,
        b \in RoiPercents }

StatsInit ==
    \E file \in SettingsFiles, m \in NdviInputs, r \in RoiGrid :
        Started(65536 * TicksPerSec + 60, file, m, r)

\* drawOverlay(coloured, ndvi) called on the matrix given.
OverlayCall ==
    /\ render = "idle"
    /\ ~NoFrameYet
    /\ DrawOverlay(m_lastNDVI)
    /\ UNCHANGED <<clock, nTicks, captureVars, queue, render, cameraUi,
                   rangeVars, recordVars, m_lastNDVI, m_lastProcessTime,
                   delivered, rawShown, procLog, lastWrite, m_lut, m_fps,
                   norm, idx, coloured, viewVars>>

StatsNext ==
    \/ AutoCalibrate
    \/ OnPreviewTimer
    \/ OverlayCall

StatsSpec == StatsInit /\ [][StatsNext]_vars

(***************************************************************************)
(* The histogram of the preview tick under the ranges that restoreSettings,*)
(* the operator and autoCalibrate leave in the sliders.  FlatNdvi is a     *)
(* scene that is all but constant: its percentiles both truncate to 0.     *)
(***************************************************************************)
FlatNdvi == << << Zero, <<1, 128>> >>,
               << Zero, Zero >> >>

HistInit ==
    \E file \in SettingsFiles, r \in RoiInputs,
       m \in { EmptyImage, NDVIMatrix(ImgC), FlatNdvi } :
        Started(65536 * TicksPerSec + 60, file, m, r)

HistNext ==
    \/ OnPreviewTimer
    \/ AutoCalibrate
    \/ \E v \in SliderInputs : SetMinSlider(v)
    \/ \E v \in SliderInputs : SetMaxSlider(v)

HistSpec == HistInit /\ [][HistNext]_vars

(***************************************************************************)
(* The percentile indices of autoCalibrate, lines 819-821, on the sample   *)
(* sizes of small regions and of regions of a 640 x 480 frame: 267501 is   *)
(* the first size whose float product reaches the next whole number,       *)
(* 271051 a region of 601 x 451 pixels, 307200 the whole frame.            *)
(***************************************************************************)
SampleSizes == (1..MaxSmallSample) \cup { 267500, 267501, 271051, 307200 }

PickIndices(n) ==
    /\ calIdx' = <<n, Idx2(n), Idx98(n)>>
    /\ UNCHANGED <<clock, nTicks, captureVars, queue, render, cameraUi,
                   minSlider, maxSlider, logCal, roi, sample, percentiles,
                   logRegion, recordVars, frameVars, viewVars>>

IndexNext == \E n \in SampleSizes : PickIndices(n)

IndexSpec == Init /\ [][IndexNext]_vars

(***************************************************************************)
(* Properties.                                                             *)
(***************************************************************************)
Last(s) == s[Len(s)]

\* The frames read from the camera among a sequence of frame numbers (0 is
\* the empty frame of an open failure).
ReadOnly(s) == SelectSeq(s, LAMBDA k : k > 0)

QueuedFrames == SelectSeq(queue, LAMBDA e : e.type = "frame")

PendingSeqs == [i \in 1..Len(QueuedFrames) |-> QueuedFrames[i].frame.seq]

\* C1: any two consecutive processed-path executions are at least the
\* process interval (0.1 s) apart, the stored lastProcessTime being the
\* time of the last one.
C1_ProcessedIntervalApart ==
    \A i \in 2..Len(procLog) :
        procLog[i].now - procLog[i - 1].now >= NominalInterval

\* C2: every frame that arrives at onFrameReady is published on the raw
\* view exactly once, in arrival order, throttled or not.
C2_EveryFramePublishedOnce == rawShown = delivered

C4_StopFlagStaysFalse ==
    render \in {"inStop", "inCloseStop"} =>
        \/ threads[m_captureThread].pc = "finished"
        \/ ~threads[m_captureThread].m_running

C6_StoppedHandlerRuns ==
    \A t \in ThreadIds :
        threads[t].why \in {"openfail", "readfail"} =>
            ~(render = "fault" /\ \E i \in 1..Len(queue) : queue[i] = FinishedEvent(t))

\* C7: an empty frame delivered to onFrameReady is short-circuited and
\* leads to no fault state.
C7_EmptyFrameNoFault ==
    (delivered # << >> /\ Last(delivered) = 0) => render # "fault"

\* C8: a frame is written to the recording only in a processed-path
\* execution with the record control checked and the writer open; the
\* writer is closed whenever the control is unchecked and after closeEvent.
C8_WritesOnlyWhileRecording ==
    /\ [](~recordChecked => ~writerOpen)
    /\ [](render = "closed" => ~writerOpen)
    /\ [][lastWrite' # lastWrite =>
            /\ recordChecked /\ writerOpen
            /\ procLog' # procLog
            /\ Last(procLog').seq = lastWrite'
            /\ lastTag']_vars

C8_Witness ==
    /\ render = "closed"
    /\ recordChecked
    /\ lastWrite > 0
    /\ procLog # << >>
    /\ Last(procLog).seq > lastWrite

\* C9: after a failed open of the encoder the record control is unchecked,
\* the writer is closed and "Record init failed" is the recording message
\* logged; frames processed from then on carry no REC tag and are not
\* written, until a later toggle opens the writer.
C9_FailedOpenCancelsRecording ==
    /\ [](logRec = "Record init failed" => ~recordChecked /\ ~writerOpen)
    /\ [][(logRec = "Record init failed" /\ procLog' # procLog) =>
            ~lastTag' /\ lastWrite' = lastWrite]_vars

C9_Witness ==
    /\ logRec = "Record init failed"
    /\ ~recordChecked
    /\ lastWrite > 0
    /\ procLog # << >>
    /\ Last(procLog).seq > lastWrite
    /\ ~lastTag

\* C10 as stated: in every reachable state max slider >= min slider.
C10_MaxAtLeastMin == maxSlider >= minSlider

\* C10 as amended: both sliders stay within [-100, 100], and an
\* auto-calibration that updates them leaves max slider >= min slider.
C10_SlidersInRange ==
    /\ [](minSlider \in SliderMin..SliderMax /\ maxSlider \in SliderMin..SliderMax)
    /\ [][(AutoCalibrate /\ logCal' = "AutoCalib") => maxSlider' >= minSlider']_vars

C10_Witness ==
    /\ logCal = "AutoCalib"
    /\ roi.on
    /\ minSlider = 0
    /\ maxSlider = 50

\* C11: a frame processed while vmax <= vmin (max slider <= min slider) gets
\* a normalized image that is zero at every pixel, LUT index 0 at every
\* pixel and a coloured image that is entry 0 of the LUT throughout; the
\* frame is processed like any other, with no fault.
C11_InvertedRangeAllZero ==
    [][(procLog' # procLog /\ maxSlider <= minSlider) =>
          /\ render' = render
          /\ Rows(coloured') = Rows(m_lastNDVI')
          /\ Cols(coloured') = Cols(m_lastNDVI')
          /\ \A p \in Pixels(m_lastNDVI') :
                /\ norm'[p[1]][p[2]] = Zero
                /\ idx'[p[1]][p[2]] = 0
                /\ coloured'[p[1]][p[2]] = LutEntry(m_lut', 0)]_vars

C11_Witness ==
    /\ minSlider = 100
    /\ maxSlider = 40
    /\ m_lut = "Thermal"
    /\ Len(procLog) = 2
    /\ coloured = [y \in 1..2 |-> [x \in 1..2 |-> <<0, 0, 255>>]]

\* C12: autoCalibrate leaves both sliders as they are and logs "no frame
\* yet" when LastNDVI is empty, and leaves them as they are and logs "no
\* valid NDVI values" when every value of the sample is a NaN.
C12_RangeKeptWithoutValues ==
    [][(logCal' # logCal /\ AutoCalibrate) =>
          /\ IsEmpty(m_lastNDVI) =>
                /\ minSlider' = minSlider /\ maxSlider' = maxSlider
                /\ logCal' = "AutoCalib: no frame yet"
          /\ (~IsEmpty(m_lastNDVI)
               /\ \A p \in Pixels(sample') : IsNaN(sample'[p[1]][p[2]])) =>
                /\ minSlider' = minSlider /\ maxSlider' = maxSlider
                /\ logCal' = "AutoCalib: no valid NDVI values"]_vars

C12_Witness ==
    /\ logCal = "AutoCalib: no valid NDVI values"
    /\ logRegion = "AutoCalib: using ROI region"
    /\ m_lastNDVI = HalfNaN
    /\ minSlider = -25
    /\ maxSlider = 60

\* C13: the percentile indices are max(0, floor(0.02 n)) and
\* min(n - 1, floor(0.98 n)) for a sample of n values, both within 0..n-1,
\* the first not above the second.
C13_PercentileIndices ==
    calIdx[1] > 0 =>
        /\ calIdx[2] = Max2(0, (2 * calIdx[1]) \div 100)
        /\ calIdx[3] = Min2(calIdx[1] - 1, (98 * calIdx[1]) \div 100)
        /\ calIdx[2] \in 0..(calIdx[1] - 1)
        /\ calIdx[3] \in 0..(calIdx[1] - 1)
        /\ calIdx[2] <= calIdx[3]

\* C14: after a successful autoCalibrate the min slider is p2 * 100 and the
\* max slider p98 * 100, each rounded to the nearest integer, negative
\* values included.
C14_SlidersRounded ==
    logCal = "AutoCalib" =>
        /\ minSlider = Hundredths_Rounded(percentiles[1])
        /\ maxSlider = Hundredths_Rounded(percentiles[2])

\* C15: autoCalibrate samples LastNDVI[top:bottom, left:right] when the ROI
\* is enabled and valid (right > left and bottom > top in pixels) and the
\* whole of LastNDVI when the ROI is disabled or invalid; the rectangle
\* sampled lies inside LastNDVI.
C15_SampleRegion ==
    logRegion # "none" =>
        LET w == Cols(m_lastNDVI)
            h == Rows(m_lastNDVI)
            x0 == RoiPixel(roi.left, w)
            x1 == RoiPixel(roi.right, w)
            y0 == RoiPixel(roi.top, h)
            y1 == RoiPixel(roi.bottom, h)
        IN  IF roi.on /\ x1 > x0 /\ y1 > y0
            THEN /\ 0 <= x0 /\ x1 <= w
                 /\ 0 <= y0 /\ y1 <= h
                 /\ Rows(sample) = y1 - y0
                 /\ Cols(sample) = x1 - x0
                 /\ \A y \in 1..(y1 - y0), x \in 1..(x1 - x0) :
                       sample[y][x] = m_lastNDVI[y0 + y][x0 + x]
            ELSE sample = m_lastNDVI

C15_Witness ==
    /\ logRegion = "AutoCalib: using ROI region"
    /\ m_lastNDVI = BigNdvi
    /\ roi.left > 0
    /\ roi.top > 0
    /\ Rows(sample) < BigRows
    /\ Cols(sample) < BigCols

\* C16: the FPS estimate is updated on every processed-path execution, so
\* that once two or more frames have been processed the FPS shown in the
\* telemetry is no longer its initial value 0.
C16_FpsUpdated ==
    Len(procLog) >= 2 => (telemetry.drawn /\ telemetry.fps # 0)

\* C17: LastNDVI is empty while no frame has been processed; a frame that
\* runs the processed path leaves in it the NDVI matrix computed from that
\* frame, of the frame's dimensions; every other step (a throttled frame, a
\* preview tick, a palette change, an auto-calibration) leaves it unchanged.
C17_LastNDVIOfLastProcessed ==
    /\ [](procLog = << >> => IsEmpty(m_lastNDVI))
    /\ [][procLog' # procLog =>
            LET img == SceneImage(procLog'[Len(procLog')].seq)
            IN  /\ m_lastNDVI' = NDVIMatrix(Zoomed(img, zoom))
                /\ Rows(m_lastNDVI') = Rows(img)
                /\ Cols(m_lastNDVI') = Cols(img)]_vars
    /\ [][procLog' = procLog => m_lastNDVI' = m_lastNDVI]_vars

C17_Witness ==
    /\ Len(delivered) = 3
    /\ Len(procLog) = 2
    /\ procLog[2].seq = 2
    /\ m_lastNDVI = NDVIMatrix(Zoomed(ImgB, 2))
    /\ zoom = 2
    /\ logCal = "AutoCalib"
    /\ hist # NoHistogram
    /\ m_lut = "Thermal"

\* The mean of the values of m that are not NaN.
ValidMean(m) ==
    LET sum == SumSeq(Flatten(m))
    IN  Reduced(<<sum[1], sum[2] * Len(Flatten(m))>>)

\* The number of pixels counted in the bins a..b of h.
RECURSIVE BinTotal(_, _, _)
BinTotal(h, a, b) ==
    IF a = b THEN h[a]
    ELSE BinTotal(h, a, (a + b) \div 2) + BinTotal(h, (a + b) \div 2 + 1, b)

C19_ColouredInBGR ==
    \A p \in Pixels(coloured) :
        LET c == PaletteColour(m_lut, idx[p[1]][p[2]])
        IN  /\ coloured[p[1]][p[2]][1] = c.blue
            /\ coloured[p[1]][p[2]][3] = c.red

\* C20: a frame processed with vmax > vmin (max slider above min slider)
\* has every normalized value within [0, 1] and every LUT index within
\* 0..255.
C20_IndexInBounds ==
    [][(procLog' # procLog /\ maxSlider > minSlider) =>
          \A p \in Pixels(m_lastNDVI') :
              /\ norm'[p[1]][p[2]][1] >= 0
              /\ norm'[p[1]][p[2]][1] <= norm'[p[1]][p[2]][2]
              /\ idx'[p[1]][p[2]] \in 0..255]_vars

\* A frame with a pixel below vmin, one above vmax and one in between.
C20_Witness ==
    /\ maxSlider > minSlider
    /\ procLog # << >>
    /\ \A p \in Pixels(m_lastNDVI) :
          norm[p[1]][p[2]] =
              Normalized(m_lastNDVI[p[1]][p[2]], minSlider, maxSlider)
    /\ \E p \in Pixels(m_lastNDVI) :
          /\ 100 * m_lastNDVI[p[1]][p[2]][1] < minSlider * m_lastNDVI[p[1]][p[2]][2]
          /\ idx[p[1]][p[2]] = 0
    /\ \E p \in Pixels(m_lastNDVI) :
          /\ 100 * m_lastNDVI[p[1]][p[2]][1] > maxSlider * m_lastNDVI[p[1]][p[2]][2]
          /\ idx[p[1]][p[2]] = 255
    /\ \E p \in Pixels(m_lastNDVI) : idx[p[1]][p[2]] \in 1..254

\* C21: whenever the preview tick runs the histogram (LastNDVI is not
\* empty) the range it bins over has vmax > vmin, so that the divisor
\* vmax - vmin of the bin computation is not zero.
C21_HistogramRangeProper ==
    [][(~IsEmpty(m_lastNDVI) /\ OnPreviewTimer) => maxSlider > minSlider]_vars

\* C22: at most one capture thread is running, and it is the one the render
\* context holds; the start control is enabled exactly when the render
\* context holds no capture thread and the abort control exactly when it
\* holds one; a capture thread is created only when none is running.
C22_OneCaptureThread ==
    /\ [](Cardinality({ t \in ThreadIds : IsRunning(t) }) <= 1)
    /\ [](\A t \in ThreadIds : IsRunning(t) => m_captureThread = t)
    /\ [](startEnabled <=> m_captureThread = 0)
    /\ [](abortEnabled <=> m_captureThread # 0)
    /\ [][nThreads' > nThreads =>
            \A t \in ThreadIds : ~IsRunning(t)]_vars

\* A second thread runs after the first was stopped and deleted.
C22_Witness ==
    /\ nThreads = 2
    /\ m_captureThread = 2
    /\ IsRunning(2)
    /\ threads[1].deleted
    /\ ~startEnabled
    /\ abortEnabled
    /\ render = "idle"

=============================================================================
